---- MODULE Spec2Model ----
(***************************************************************************)
(* Model of torch_musa's reduction / cumulative operators                  *)
(* (torch_musa/csrc/aten/ops/Reduce.cpp) and of the MUSA stream wrapper    *)
(* (torch_musa/csrc/core/MUSAStream.h).                                    *)
(*                                                                         *)
(* A tensor is a record [defined, id, dtype, shape, data]; `data` is an    *)
(* abstract description of who wrote the contents last.  The muDNN library *)
(* is a black box: each Run is appended to the log `lib`.                  *)
(***************************************************************************)
EXTENDS Integers, Sequences, FiniteSets, TLC

(* ------------------------------ bounds --------------------------------- *)
MaxDimSize == 2
StreamsPerPool == 3
MaxCalls == 4

(* ------------------------------ dtypes --------------------------------- *)
DTypes ==
  {"Bool", "Byte", "Char", "Short", "Int", "Long",
   "Half", "BFloat16", "Float", "Double"}

OptDTypes == DTypes \cup {"None"}

isFloatingType(t) == t \in {"Half", "BFloat16", "Float", "Double"}

isIntegralType(t, includeBool) ==
  \/ t \in {"Byte", "Char", "Short", "Int", "Long"}
  \/ (includeBool /\ t = "Bool")

(* ------------------------------ tensors -------------------------------- *)
DimSizes == 0..MaxDimSize

ShapesOfRank(r) == [1..r -> DimSizes]

SelfShapes == ShapesOfRank(0) \cup ShapesOfRank(1) \cup ShapesOfRank(2)

OutShapes == ShapesOfRank(0) \cup ShapesOfRank(1)

RECURSIVE Numel(_)
Numel(shape) ==
  IF Len(shape) = 0 THEN 1 ELSE Head(shape) * Numel(Tail(shape))

OrigData == [kind |-> "orig", v |-> 0]
UninitData == [kind |-> "uninit", v |-> 0]
FillData(v) == [kind |-> "fill", v |-> v]
LibData(mode) == [kind |-> "lib", v |-> mode]

Tensor(id, dtype, shape, data) ==
  [defined |-> TRUE, id |-> id, dtype |-> dtype, shape |-> shape, data |-> data]

UndefinedTensor ==
  [defined |-> FALSE, id |-> "none", dtype |-> "None", shape |-> <<>>,
   data |-> [kind |-> "none", v |-> 0]]

(* at::empty(shape, options.dtype(dtype)) *)
Empty(shape, dtype) == Tensor("fresh", dtype, shape, UninitData)

(* ------------------------------ scalars -------------------------------- *)
(* An at::Scalar: kind is its tag; an Int holds v, a Double holds v/2.     *)
NoScalar == [has |-> FALSE, kind |-> "None", v |-> 0]
IntScalar(v) == [has |-> TRUE, kind |-> "Int", v |-> v]
DoubleScalar(halves) == [has |-> TRUE, kind |-> "Double", v |-> halves]
BoolScalar == [has |-> TRUE, kind |-> "Bool", v |-> 1]
ComplexScalar == [has |-> TRUE, kind |-> "Complex", v |-> 0]

(* ------------------------- dtype inference ----------------------------- *)
musa_get_dtype_from_self_NoPromotion(self_dtype, dtype, promote_integers) ==
  IF dtype # "None" THEN dtype ELSE self_dtype

musa_get_dtype_from_self(self_dtype, dtype, promote_integers) ==
  IF dtype # "None" THEN dtype
  ELSE IF promote_integers /\ isIntegralType(self_dtype, TRUE) THEN "Long"
  ELSE self_dtype

musa_infer_dtype_from_optional(self_dtype, opt_dtype, result) ==
  IF result.defined
    THEN (IF opt_dtype # "None" THEN opt_dtype ELSE result.dtype)
    ELSE musa_get_dtype_from_self(self_dtype, opt_dtype, TRUE)

(* c10::promoteTypes restricted to DTypes *)
SignedWidth(t) ==
  CASE t = "Char" -> 1 [] t = "Short" -> 2 [] t = "Int" -> 4 [] t = "Long" -> 8
    [] OTHER -> 0

promoteTypes(a, b) ==
  IF a = b THEN a
  ELSE IF a = "Bool" THEN b
  ELSE IF b = "Bool" THEN a
  ELSE IF isFloatingType(a) /\ ~isFloatingType(b) THEN a
  ELSE IF isFloatingType(b) /\ ~isFloatingType(a) THEN b
  ELSE IF isFloatingType(a) /\ isFloatingType(b)
    THEN (IF "Double" \in {a, b} THEN "Double" ELSE "Float")
  ELSE IF "Byte" \in {a, b}
    THEN (IF "Char" \in {a, b} THEN "Short"
          ELSE IF a = "Byte" THEN b ELSE a)
  ELSE IF SignedWidth(a) >= SignedWidth(b) THEN a ELSE b

(* ------------------------- dims and shapes ----------------------------- *)
RankForWrap(rank) == IF rank = 0 THEN 1 ELSE rank

DimInRange(d, rank) == -RankForWrap(rank) <= d /\ d < RankForWrap(rank)

WrapDim(d, rank) == IF d < 0 THEN d + RankForWrap(rank) ELSE d

(* at::maybe_wrap_dims: [ok, dims]; ok is FALSE when it raises IndexError *)
maybe_wrap_dims(dims, rank) ==
  [ok |-> \A k \in 1..Len(dims) : DimInRange(dims[k], rank),
   dims |-> [k \in 1..Len(dims) |-> WrapDim(dims[k], rank)]]

(* at::meta::make_dim_mask: an empty list reduces every dimension *)
DimMasked(dims, i) ==
  Len(dims) = 0 \/ \E k \in 1..Len(dims) : dims[k] = i - 1

NoDuplicateDims(dims) ==
  \A j, k \in 1..Len(dims) : j # k => dims[j] # dims[k]

RECURSIVE DropMasked(_, _, _)
DropMasked(shape, dims, i) ==
  IF i > Len(shape) THEN <<>>
  ELSE IF DimMasked(dims, i) THEN DropMasked(shape, dims, i + 1)
  ELSE <<shape[i]>> \o DropMasked(shape, dims, i + 1)

(* at::meta::get_reduction_shape, dims already wrapped *)
get_reduction_shape(shape, dims, keepdim) ==
  IF keepdim
    THEN [i \in 1..Len(shape) |-> IF DimMasked(dims, i) THEN 1 ELSE shape[i]]
    ELSE DropMasked(shape, dims, 1)

(* --------------------------- muDNN calls ------------------------------- *)
NoOrd == [set |-> FALSE, halves |-> 0]

(* The spacing of the floats (24-bit significand) around magnitude a *)
RECURSIVE FloatStep(_)
FloatStep(a) == IF a < 16777216 THEN 1 ELSE 2 * FloatStep(a \div 2)

(* Round magnitude a to a multiple of step, ties to the even multiple *)
RoundToStep(a, step) ==
  LET q == a \div step
      r == a % step
  IN IF 2 * r < step THEN q * step
     ELSE IF 2 * r > step THEN (q + 1) * step
     ELSE IF q % 2 = 0 THEN q * step ELSE (q + 1) * step

(* Conversion to float of a number given as an integer count of a power-   *)
(* of-two unit: exact up to 24 significant bits, else round to nearest even *)
FloatRound(n) ==
  IF n >= 0 THEN RoundToStep(n, FloatStep(n))
  ELSE -RoundToStep(-n, FloatStep(-n))

(* static_cast<float>(val.to<int64_t>()) *)
FloatOfInt64(v) == FloatRound(v)

(* static_cast<float>(val.to<double>()), the double given in halves *)
FloatOfDouble(halves) == FloatRound(halves)

(* One Run of a muDNN primitive: what it was configured with and the       *)
(* dtypes and output shape of the tensors handed to it.                    *)
LibCall(prim, mode, dims, in_dtype, out_dtype, out_shape, ord) ==
  [prim |-> prim, mode |-> mode, dims |-> dims, in_dtype |-> in_dtype,
   out_dtype |-> out_dtype, out_shape |-> out_shape, ord |-> ord]

NormOrd_BoolIsIntegral(p, is_norm) ==
  IF ~is_norm THEN [ok |-> TRUE, ord |-> NoOrd]
  ELSE IF ~p.has THEN [ok |-> TRUE, ord |-> [set |-> TRUE, halves |-> 4]]
  ELSE IF p.kind \in {"Int", "Bool"}
    THEN [ok |-> TRUE, ord |-> [set |-> TRUE, halves |-> 2 * FloatOfInt64(p.v)]]
  ELSE IF p.kind = "Double"
    THEN [ok |-> TRUE, ord |-> [set |-> TRUE, halves |-> FloatOfDouble(p.v)]]
  ELSE [ok |-> FALSE, ord |-> NoOrd]

(* The order ReduceCall hands to SetNormOrd: [ok, ord] *)
NormOrd(p, is_norm) ==
  IF ~is_norm THEN [ok |-> TRUE, ord |-> NoOrd]
  ELSE IF ~p.has THEN [ok |-> TRUE, ord |-> [set |-> TRUE, halves |-> 4]]
  ELSE IF p.kind = "Int"
    THEN [ok |-> TRUE, ord |-> [set |-> TRUE, halves |-> 2 * FloatOfInt64(p.v)]]
  ELSE IF p.kind = "Double"
    THEN [ok |-> TRUE, ord |-> [set |-> TRUE, halves |-> FloatOfDouble(p.v)]]
  ELSE [ok |-> FALSE, ord |-> NoOrd]

ReduceCall_NoScalarCase(output, self, dim, m, p, is_norm) ==
  IF Numel(self.shape) = 0
    THEN [raised |-> FALSE, output |-> output, lib |-> <<>>]
  ELSE IF ~NormOrd(p, is_norm).ok
    THEN [raised |-> TRUE, output |-> output, lib |-> <<>>]
  ELSE [raised |-> FALSE,
        output |-> [output EXCEPT !.data = LibData(m)],
        lib |-> <<LibCall("Reduce", m, dim,
                          self.dtype, output.dtype, output.shape,
                          NormOrd(p, is_norm).ord)>>]

(* ReduceCall: [raised, output, lib] *)
ReduceCall(output, self, dim, m, p, is_norm) ==
  IF Numel(self.shape) = 0
    THEN [raised |-> FALSE, output |-> output, lib |-> <<>>]
  ELSE IF ~NormOrd(p, is_norm).ok
    THEN [raised |-> TRUE, output |-> output, lib |-> <<>>]
  ELSE [raised |-> FALSE,
        output |-> [output EXCEPT !.data = LibData(m)],
        lib |-> <<LibCall("Reduce", m,
                          IF Len(self.shape) = 0 /\ Numel(self.shape) = 1
                            THEN <<>> ELSE dim,
                          self.dtype, output.dtype, output.shape,
                          NormOrd(p, is_norm).ord)>>]

(* Reduction: [raised, output, lib] *)
Reduction(self, dim, keepdim, out_dtype, m, p, is_norm) ==
  LET dtype == musa_infer_dtype_from_optional(self.dtype, out_dtype,
                                              UndefinedTensor)
      wrapped == maybe_wrap_dims(dim, Len(self.shape))
      shape == get_reduction_shape(self.shape, wrapped.dims, keepdim)
      output == Empty(shape, dtype)
  IN IF ~wrapped.ok \/ ~NoDuplicateDims(wrapped.dims)
       THEN [raised |-> TRUE, output |-> UndefinedTensor, lib |-> <<>>]
     ELSE IF Numel(self.shape) = 0
       THEN [raised |-> FALSE,
             output |-> [output EXCEPT !.data = FillData(0)],
             lib |-> <<>>]
     ELSE LET r == ReduceCall(output, self, wrapped.dims, m, p, is_norm)
          IN [raised |-> r.raised,
              output |-> IF r.raised THEN UndefinedTensor ELSE r.output,
              lib |-> r.lib]

CumComputeTypes_NoWidening(in_dtype, out_dtype) ==
  IF isFloatingType(in_dtype) \/ isFloatingType(out_dtype)
    THEN [in_ctype |-> promoteTypes(in_dtype, out_dtype),
          out_ctype |-> promoteTypes(in_dtype, out_dtype)]
  ELSE IF out_dtype = "Int" \/ out_dtype = "Long"
    THEN (IF in_dtype = "Long"
            THEN [in_ctype |-> in_dtype, out_ctype |-> in_dtype]
          ELSE [in_ctype |-> in_dtype, out_ctype |-> out_dtype])
  ELSE IF in_dtype = "Long"
    THEN [in_ctype |-> in_dtype, out_ctype |-> in_dtype]
  ELSE [in_ctype |-> in_dtype, out_ctype |-> "Int"]

(* --------------------------- cumulative ops ---------------------------- *)
(* The compute dtypes CumulativeImpl selects: [in_ctype, out_ctype] *)
CumComputeTypes(in_dtype, out_dtype) ==
  IF isFloatingType(in_dtype) \/ isFloatingType(out_dtype)
    THEN [in_ctype |-> promoteTypes(in_dtype, out_dtype),
          out_ctype |-> promoteTypes(in_dtype, out_dtype)]
  ELSE IF out_dtype = "Int" \/ out_dtype = "Long"
    THEN (IF in_dtype = "Byte" \/ in_dtype = "Short"
            THEN [in_ctype |-> "Int", out_ctype |-> out_dtype]
          ELSE IF in_dtype = "Long"
            THEN [in_ctype |-> in_dtype, out_ctype |-> in_dtype]
          ELSE [in_ctype |-> in_dtype, out_ctype |-> out_dtype])
  ELSE IF in_dtype = "Long"
    THEN [in_ctype |-> in_dtype, out_ctype |-> in_dtype]
  ELSE IF in_dtype = "Byte" \/ in_dtype = "Short"
    THEN [in_ctype |-> "Int", out_ctype |-> "Int"]
  ELSE [in_ctype |-> in_dtype, out_ctype |-> "Int"]

(* CumulativeImpl(out, in, dim, mode): [out, filled, lib]; `filled` says    *)
(* that out.fill_(in) ran first (0-dim input).  The library writes the     *)
(* proxy of out and, when the proxy is a converted copy, out.copy_ brings  *)
(* the result back, so out keeps its dtype and shape.                      *)
CumulativeImpl(o, in, dim, mode) ==
  IF Numel(in.shape) = 0
    THEN [out |-> o, filled |-> FALSE, lib |-> <<>>]
  ELSE LET c == CumComputeTypes(in.dtype, o.dtype)
       IN [out |-> [o EXCEPT !.data = LibData(mode)],
           filled |-> (Len(in.shape) = 0),
           lib |-> <<LibCall("Cum", mode, <<dim>>, c.in_ctype, c.out_ctype,
                             o.shape, NoOrd)>>]

(* native::resize_output *)
resize_output(o, shape) ==
  IF o.shape = shape THEN o
  ELSE [o EXCEPT !.shape = shape, !.data = UninitData]

CumulativeOut_ResizeBeforeCheck(s, dim, dtype, o, mode) ==
  IF dtype # "None" /\ dtype # o.dtype
    THEN [raised |-> TRUE, out |-> resize_output(o, s.shape), lib |-> <<>>]
  ELSE LET r == CumulativeImpl(resize_output(o, s.shape), s, dim, mode)
       IN [raised |-> FALSE, out |-> r.out, lib |-> r.lib]

(* CumulativeOut: [raised, out, lib] *)
CumulativeOut(s, dim, dtype, o, mode) ==
  IF dtype # "None" /\ dtype # o.dtype
    THEN [raised |-> TRUE, out |-> o, lib |-> <<>>]
  ELSE LET r == CumulativeImpl(resize_output(o, s.shape), s, dim, mode)
       IN [raised |-> FALSE, out |-> r.out, lib |-> r.lib]

(* Cumulative_: in place on self, dtype ignored *)
Cumulative_(s, dim, dtype, mode) == CumulativeImpl(s, s, dim, mode)

Cumulative_InputDtype(s, dim, dtype, mode) ==
  CumulativeImpl(Empty(s.shape, IF dtype # "None" THEN dtype ELSE s.dtype),
                 s, dim, mode)

(* Cumulative: functional *)
Cumulative(s, dim, dtype, mode) ==
  LET out_dtype == IF dtype # "None" THEN dtype
                   ELSE IF isIntegralType(s.dtype, TRUE) THEN "Long"
                   ELSE s.dtype
  IN CumulativeImpl(Empty(s.shape, out_dtype), s, dim, mode)

(* ------------------------------ norm ----------------------------------- *)
NormDTypes == {"Float", "Half", "BFloat16"}

(* Tensor::copy_: the source must broadcast to the destination's shape *)
Broadcastable(src, dst) ==
  /\ Len(src) <= Len(dst)
  /\ \A k \in 1..Len(src) :
       LET d == dst[Len(dst) - Len(src) + k]
       IN src[k] = d \/ src[k] = 1

NormDtypeOutResult_NoDtypeCheck(s, p, dim, keepdim, dtype, o) ==
  IF s.dtype \notin NormDTypes
    THEN [raised |-> TRUE, out |-> o, lib |-> <<>>, temp |-> UndefinedTensor]
  ELSE LET r == Reduction(s, dim, keepdim, o.dtype, "NORM", p, TRUE)
       IN IF r.raised \/ ~Broadcastable(r.output.shape, o.shape)
            THEN [raised |-> TRUE, out |-> o, lib |-> r.lib, temp |-> r.output]
          ELSE [raised |-> FALSE,
                out |-> [o EXCEPT !.data = r.output.data],
                lib |-> r.lib, temp |-> r.output]

(* The outcome of NormDtypeOut: [raised, out, lib, temp] *)
NormDtypeOutResult(s, p, dim, keepdim, dtype, o) ==
  IF s.dtype \notin NormDTypes \/ dtype \notin NormDTypes
    THEN [raised |-> TRUE, out |-> o, lib |-> <<>>, temp |-> UndefinedTensor]
  ELSE LET gpu_lowp_to_f32 ==
             s.dtype \in {"Half", "BFloat16"} /\ o.dtype = "Float"
           r == Reduction(s, dim, keepdim,
                          IF gpu_lowp_to_f32 THEN s.dtype ELSE o.dtype,
                          "NORM", p, TRUE)
       IN IF r.raised \/ ~Broadcastable(r.output.shape, o.shape)
            THEN [raised |-> TRUE, out |-> o, lib |-> r.lib, temp |-> r.output]
          ELSE [raised |-> FALSE,
                out |-> [o EXCEPT !.data = r.output.data],
                lib |-> r.lib, temp |-> r.output]

(* The outcome of NormOut; `out = NormDtypeOut(...)` assigns out to itself *)
NormOutResult(s, p, dim, keepdim, o) ==
  NormDtypeOutResult(s, p, dim, keepdim, s.dtype, o)

(* ------------------------------ state ---------------------------------- *)
VARIABLES
  self,      \* the input tensor of the operator call
  out,       \* the caller's out tensor (undefined for functional operators)
  call,      \* the call made: operator, arguments, tensors as passed
  ret,       \* the tensor the call returned
  raised,    \* the call ended in an exception
  lib,       \* the muDNN Runs of the call
  pc,        \* "ready" before the call, "done" after it
  current_device,   \* the runtime's current device of the calling thread
  current_streams,  \* device -> the current stream of that device
  last_set,         \* device -> the stream setCurrentMUSAStream set last
  pool_counter,     \* <<priority class, device>> -> requests served so far
  handed,           \* <<priority class, device>> -> pool indices handed out
  last_error,       \* the runtime's sticky last error
  rt_range,         \* <<least, greatest>> the runtime reports for the device
  sres              \* the last stream call and its result

opvars == <<self, out, call, ret, raised, lib, pc>>

streamvars ==
  <<current_device, current_streams, last_set, pool_counter, handed,
    last_error, rt_range, sres>>

vars == <<opvars, streamvars>>

(* ------------------------------ streams -------------------------------- *)
Devices == {0, 1}

DeviceArgs == Devices \cup {-1}

PoolKinds == {"normal", "high"}

Pools == PoolKinds \X Devices

DefaultStream(d) == [device |-> d, kind |-> "default", idx |-> 0]

PoolStream(kind, d, i) == [device |-> d, kind |-> kind, idx |-> i]

NoStream == [device |-> -1, kind |-> "none", idx |-> 0]

PoolStreams ==
  {PoolStream(k, d, i) : k \in PoolKinds, d \in Devices, i \in 0..(StreamsPerPool - 1)}

Streams == {DefaultStream(d) : d \in Devices} \cup PoolStreams

(* a device index of -1 stands for the current device *)
ResolveDevice(d) == IF d = -1 THEN current_device ELSE d

NoResult ==
  [op |-> "none", dev_arg |-> -1, stream |-> NoStream, raised |-> FALSE,
   flag |-> FALSE, value |-> 0, range |-> <<0, 0>>, err |-> "musaSuccess",
   reported |-> 0, ran_on |-> -1,
   before |-> [device |-> current_device, streams |-> current_streams,
               last_error |-> last_error]]

(* The stream state the tensor operators run in and leave alone *)
StreamsAtRest ==
  /\ current_device = 0
  /\ current_streams = [d \in Devices |-> DefaultStream(d)]
  /\ last_set = [d \in Devices |-> NoStream]
  /\ pool_counter = [pl \in Pools |-> 0]
  /\ handed = [pl \in Pools |-> <<>>]
  /\ last_error = "musaSuccess"
  /\ rt_range = <<1, 0>>
  /\ sres = NoResult

NoCall ==
  [op |-> "none", dtype |-> "None", dims |-> <<>>, keepdim |-> FALSE,
   p |-> NoScalar, self |-> UndefinedTensor, out |-> UndefinedTensor,
   mode |-> "none", is_norm |-> FALSE]

(* The tensor state the stream calls run in and leave alone *)
NoOperatorCall ==
  /\ self = UndefinedTensor
  /\ out = UndefinedTensor
  /\ call = NoCall
  /\ ret = UndefinedTensor
  /\ raised = FALSE
  /\ lib = <<>>
  /\ pc = "ready"

Call(op, dtype, dims, keepdim, p) ==
  [op |-> op, dtype |-> dtype, dims |-> dims, keepdim |-> keepdim,
   p |-> p, self |-> self, out |-> out, mode |-> "none", is_norm |-> FALSE]

SelfTensors ==
  {Tensor("self", t, sh, OrigData) : t \in DTypes, sh \in SelfShapes}

(* Inputs of the functional and in-place operators *)
Init ==
  /\ self \in SelfTensors
  /\ out = UndefinedTensor
  /\ call = NoCall
  /\ ret = UndefinedTensor
  /\ raised = FALSE
  /\ lib = <<>>
  /\ pc = "ready"
  /\ StreamsAtRest

DimLists == {<<>>, <<0>>, <<1>>, <<-1>>, <<0, 1>>, <<0, 0>>}

CumDims == {0, 1, -1}

(* A functional reduction: the result of Reduction is returned *)
ReductionOp(op, dims, keepdim, dtype, m) ==
  LET r == Reduction(self, dims, keepdim, dtype, m, NoScalar, FALSE)
  IN /\ pc = "ready"
     /\ pc' = "done"
     /\ call' = Call(op, dtype, dims, keepdim, NoScalar)
     /\ ret' = r.output
     /\ raised' = r.raised
     /\ lib' = r.lib
     /\ UNCHANGED <<self, out, streamvars>>

Sum == \E dtype \in OptDTypes : ReductionOp("Sum", <<>>, FALSE, dtype, "ADD")

Mean == \E dtype \in OptDTypes : ReductionOp("Mean", <<>>, FALSE, dtype, "MEAN")

Prod == \E dtype \in OptDTypes : ReductionOp("Prod", <<>>, FALSE, dtype, "PROD")

SumIntList ==
  \E dtype \in OptDTypes, dim \in DimLists, keepdim \in BOOLEAN :
    ReductionOp("SumIntList", dim, keepdim, dtype, "ADD")

MeanDim ==
  \E dtype \in OptDTypes, dim \in DimLists, keepdim \in BOOLEAN :
    ReductionOp("MeanDim", dim, keepdim, dtype, "MEAN")

(* CumSum / CumProd *)
CumulativeOp(op, dim, dtype, mode) ==
  LET r == Cumulative(self, dim, dtype, mode)
  IN /\ pc = "ready"
     /\ pc' = "done"
     /\ call' = Call(op, dtype, <<dim>>, FALSE, NoScalar)
     /\ ret' = r.out
     /\ raised' = FALSE
     /\ lib' = r.lib
     /\ UNCHANGED <<self, out, streamvars>>

CumSum ==
  \E dtype \in OptDTypes, dim \in CumDims :
    CumulativeOp("CumSum", dim, dtype, "CUM_ADD")

CumProd ==
  \E dtype \in OptDTypes, dim \in CumDims :
    CumulativeOp("CumProd", dim, dtype, "CUM_MUL")

(* CumSum_ / CumProd_ *)
CumulativeOp_(op, dim, dtype, mode) ==
  LET r == Cumulative_(self, dim, dtype, mode)
  IN /\ pc = "ready"
     /\ pc' = "done"
     /\ call' = Call(op, dtype, <<dim>>, FALSE, NoScalar)
     /\ self' = r.out
     /\ ret' = r.out
     /\ raised' = FALSE
     /\ lib' = r.lib
     /\ UNCHANGED <<out, streamvars>>

CumSum_ ==
  \E dtype \in OptDTypes, dim \in CumDims :
    CumulativeOp_("CumSum_", dim, dtype, "CUM_ADD")

CumProd_ ==
  \E dtype \in OptDTypes, dim \in CumDims :
    CumulativeOp_("CumProd_", dim, dtype, "CUM_MUL")

(* ---------------------- operators with an out tensor ------------------- *)
OutTensors ==
  {Tensor("out", t, sh, OrigData) : t \in DTypes, sh \in OutShapes}

(* Inputs of CumSumOut / CumProdOut *)
InitCumOut ==
  /\ self \in {Tensor("self", t, sh, OrigData) : t \in DTypes, sh \in OutShapes}
  /\ out \in OutTensors
  /\ call = NoCall
  /\ ret = UndefinedTensor
  /\ raised = FALSE
  /\ lib = <<>>
  /\ pc = "ready"
  /\ StreamsAtRest

CumulativeOutOp(op, dim, dtype, mode) ==
  LET r == CumulativeOut(self, dim, dtype, out, mode)
  IN /\ pc = "ready"
     /\ pc' = "done"
     /\ call' = Call(op, dtype, <<dim>>, FALSE, NoScalar)
     /\ out' = r.out
     /\ ret' = IF r.raised THEN UndefinedTensor ELSE r.out
     /\ raised' = r.raised
     /\ lib' = r.lib
     /\ UNCHANGED <<self, streamvars>>

CumSumOut ==
  \E dtype \in OptDTypes, dim \in CumDims :
    CumulativeOutOp("CumSumOut", dim, dtype, "CUM_ADD")

CumProdOut ==
  \E dtype \in OptDTypes, dim \in CumDims :
    CumulativeOutOp("CumProdOut", dim, dtype, "CUM_MUL")

NextCumOut ==
  \/ CumSumOut
  \/ CumProdOut

CumOutSpec == InitCumOut /\ [][NextCumOut]_vars

(* Inputs of NormDtypeOut / NormOut *)
NormShapes == {<<>>, <<0>>, <<1>>, <<MaxDimSize>>}

NormDims == {<<>>, <<0>>, <<1>>}

NormOrders == {NoScalar, IntScalar(3), BoolScalar}

InitNorm ==
  /\ self \in {Tensor("self", t, sh, OrigData) :
                  t \in DTypes, sh \in NormShapes \ {<<1>>}}
  /\ out \in {Tensor("out", t, sh, OrigData) :
                 t \in DTypes, sh \in NormShapes \ {<<0>>}}
  /\ call = NoCall
  /\ ret = UndefinedTensor
  /\ raised = FALSE
  /\ lib = <<>>
  /\ pc = "ready"
  /\ StreamsAtRest

NormOp(op, r, p, dim, keepdim, dtype) ==
  /\ pc = "ready"
  /\ pc' = "done"
  /\ call' = Call(op, dtype, dim, keepdim, p)
  /\ out' = r.out
  /\ ret' = IF r.raised THEN UndefinedTensor ELSE r.out
  /\ raised' = r.raised
  /\ lib' = r.lib
  /\ UNCHANGED <<self, streamvars>>

NormDtypeOut ==
  \E p \in NormOrders, dim \in NormDims, keepdim \in BOOLEAN, dtype \in DTypes :
    NormOp("NormDtypeOut",
           NormDtypeOutResult(self, p, dim, keepdim, dtype, out),
           p, dim, keepdim, dtype)

NormOut ==
  \E p \in NormOrders, dim \in NormDims, keepdim \in BOOLEAN :
    NormOp("NormOut", NormOutResult(self, p, dim, keepdim, out),
           p, dim, keepdim, "None")

NextNorm ==
  \/ NormDtypeOut
  \/ NormOut

NormSpec == InitNorm /\ [][NextNorm]_vars

(* -------------------------- operator claims ---------------------------- *)
IntegralOrBool == {"Bool", "Byte", "Char", "Short", "Int", "Long"}

(* The dtype the host framework's policy gives a reduction's result *)
PolicyDtype(given, input) ==
  IF given # "None" THEN given
  ELSE IF input \in IntegralOrBool THEN "Long"
  ELSE input

ReductionOps == {"Sum", "Mean", "Prod", "SumIntList", "MeanDim"}

(* C1: a functional reduction that returns has the explicit dtype when one *)
(* is given, otherwise Long for an integral (or Bool) input, otherwise the *)
(* input's dtype; it is a fresh tensor, never the result-dtype branch.     *)
C1_ReductionDtype ==
  (pc = "done" /\ call.op \in ReductionOps /\ ~raised) =>
    /\ ret.defined
    /\ ret.id = "fresh"
    /\ ret.dtype = PolicyDtype(call.dtype, call.self.dtype)

C1_Witness ==
  /\ pc = "done"
  /\ call.op = "SumIntList"
  /\ ~raised
  /\ call.dtype = "None"
  /\ call.self.dtype = "Bool"
  /\ ret.dtype = "Long"
  /\ lib # <<>>

(* The identity of the reduction operator *)
OperatorIdentity(op) == IF op = "Prod" THEN 1 ELSE 0

(* C2: Sum and Prod over an input with zero elements return the identity   *)
(* of the operator (0 for Sum, 1 for Prod) as a 0-dim tensor of the        *)
(* inferred dtype, without a library Run.                                  *)
C2_EmptyReductionIdentity ==
  (pc = "done" /\ call.op \in {"Sum", "Prod"} /\ Numel(call.self.shape) = 0) =>
    /\ ~raised
    /\ ret.data = FillData(OperatorIdentity(call.op))
    /\ ret.shape = <<>>
    /\ ret.dtype = PolicyDtype(call.dtype, call.self.dtype)
    /\ lib = <<>>

(* C3: CumSum / CumProd return a tensor of the input's shape and of the    *)
(* policy dtype; CumSum_ / CumProd_ return self with dtype and shape as    *)
(* before, whatever dtype argument was given.                              *)
C3_CumulativeDtypeShape ==
  /\ (pc = "done" /\ call.op \in {"CumSum", "CumProd"}) =>
       /\ ~raised
       /\ ret.shape = call.self.shape
       /\ ret.dtype = PolicyDtype(call.dtype, call.self.dtype)
       /\ self = call.self
  /\ (pc = "done" /\ call.op \in {"CumSum_", "CumProd_"}) =>
       /\ ~raised
       /\ ret = self
       /\ self.id = call.self.id
       /\ self.dtype = call.self.dtype
       /\ self.shape = call.self.shape

C3_Witness ==
  /\ pc = "done"
  /\ call.op = "CumProd"
  /\ call.dtype = "None"
  /\ call.self.dtype = "Short"
  /\ ret.dtype = "Long"
  /\ ret.shape = <<2, 1>>
  /\ lib # <<>>

(* C4: CumSumOut / CumProdOut with an explicit dtype other than out's      *)
(* dtype raise, leaving out as it was and the library not run; otherwise   *)
(* out has the input's shape when the library runs.                        *)
C4_CumulativeOutDtypeCheck ==
  (pc = "done" /\ call.op \in {"CumSumOut", "CumProdOut"}) =>
    IF call.dtype # "None" /\ call.dtype # call.out.dtype
      THEN raised /\ out = call.out /\ lib = <<>>
      ELSE /\ ~raised
           /\ out.shape = call.self.shape
           /\ out.dtype = call.out.dtype
           /\ \A k \in 1..Len(lib) : lib[k].out_shape = call.self.shape

C4_Witness ==
  /\ pc = "done"
  /\ call.op = "CumSumOut"
  /\ raised
  /\ call.dtype = "Float"
  /\ call.out.dtype = "Long"
  /\ call.out.shape # call.self.shape
  /\ out = call.out

(* C13: the compute dtypes CumulativeImpl hands to the library: if the     *)
(* input or the out dtype is floating, both are promoteTypes(input, out);  *)
(* otherwise the output compute dtype is Int or Long, and Long whenever    *)
(* the input is Long, while the input compute dtype is never Byte or Short *)
(* (those become Int) and Bool, Char and Int inputs keep their dtype.      *)
C13_CumulativeComputeDtypes ==
  \A i \in 1..Len(lib) :
    lib[i].prim = "Cum" =>
      LET in_dtype == call.self.dtype
          out_dtype == call.out.dtype
          in_ctype == lib[i].in_dtype
          out_ctype == lib[i].out_dtype
      IN IF isFloatingType(in_dtype) \/ isFloatingType(out_dtype)
           THEN /\ in_ctype = promoteTypes(in_dtype, out_dtype)
                /\ out_ctype = promoteTypes(in_dtype, out_dtype)
         ELSE /\ out_ctype \in {"Int", "Long"}
              /\ in_dtype = "Long" => out_ctype = "Long"
              /\ in_ctype \notin {"Byte", "Short"}
              /\ in_dtype \in {"Byte", "Short"} => in_ctype = "Int"
              /\ in_dtype \in {"Bool", "Char", "Int"} => in_ctype = in_dtype

C13_Witness ==
  /\ pc = "done"
  /\ call.self.dtype = "Byte"
  /\ call.out.dtype = "Bool"
  /\ Len(lib) = 1
  /\ lib[1].prim = "Cum"
  /\ lib[1].in_dtype = "Int"
  /\ lib[1].out_dtype = "Int"

(* C9: NormDtypeOut raises when the input dtype or the requested dtype is  *)
(* not Float, Half or BFloat16 (NormOut: when the input dtype is not);     *)
(* out is then as it was and the library has not run.                      *)
C9_NormRejectsDtypes ==
  /\ (pc = "done" /\ call.op = "NormDtypeOut"
        /\ (call.self.dtype \notin {"Float", "Half", "BFloat16"}
             \/ call.dtype \notin {"Float", "Half", "BFloat16"})) =>
       (raised /\ out = call.out /\ lib = <<>>)
  /\ (pc = "done" /\ call.op = "NormOut"
        /\ call.self.dtype \notin {"Float", "Half", "BFloat16"}) =>
       (raised /\ out = call.out /\ lib = <<>>)

C9_Witness ==
  /\ pc = "done"
  /\ call.op = "NormDtypeOut"
  /\ call.self.dtype = "Float"
  /\ call.dtype = "Double"
  /\ call.out.dtype = "Float"
  /\ Numel(call.self.shape) > 0
  /\ raised

(* C10: the reduction of NormDtypeOut runs in the requested dtype          *)
(* argument, except for a Half or BFloat16 input with a Float out, where   *)
(* it runs in the input's dtype; out keeps its dtype and identity.         *)
C10_NormRunsInRequestedDtype ==
  (pc = "done" /\ call.op = "NormDtypeOut" /\ lib # <<>>) =>
    /\ lib[1].out_dtype =
         (IF call.self.dtype \in {"Half", "BFloat16"} /\ call.out.dtype = "Float"
            THEN call.self.dtype ELSE call.dtype)
    /\ out.dtype = call.out.dtype
    /\ out.id = call.out.id

(* ------------------- current and default streams ----------------------- *)
Before ==
  [device |-> current_device, streams |-> current_streams,
   last_error |-> last_error]

StreamResult(op, dev_arg, stream) ==
  [NoResult EXCEPT !.op = op, !.dev_arg = dev_arg, !.stream = stream,
                   !.before = Before]

InitStreams ==
  /\ NoOperatorCall
  /\ current_device \in Devices
  /\ current_streams = [d \in Devices |-> DefaultStream(d)]
  /\ last_set = [d \in Devices |-> NoStream]
  /\ pool_counter = [pl \in Pools |-> 0]
  /\ handed = [pl \in Pools |-> <<>>]
  /\ last_error = "musaSuccess"
  /\ rt_range = <<1, 0>>
  /\ sres = NoResult

SetCurrent_OnCurrentDevice(streams, s) ==
  [streams EXCEPT ![current_device] = s]

(* the per-device table of current streams after setCurrentMUSAStream(s) *)
SetCurrent(streams, s) == [streams EXCEPT ![s.device] = s]

setCurrentMUSAStream ==
  \E s \in Streams :
    /\ current_streams' = SetCurrent(current_streams, s)
    /\ last_set' = [last_set EXCEPT ![s.device] = s]
    /\ sres' = StreamResult("setCurrentMUSAStream", s.device, s)
    /\ UNCHANGED <<current_device, pool_counter, handed, last_error, rt_range>>
    /\ UNCHANGED opvars

getCurrentMUSAStream ==
  \E d \in DeviceArgs :
    /\ sres' = StreamResult("getCurrentMUSAStream", d,
                            current_streams[ResolveDevice(d)])
    /\ UNCHANGED <<current_device, current_streams, last_set, pool_counter,
                   handed, last_error, rt_range>>
    /\ UNCHANGED opvars

getDefaultMUSAStream ==
  \E d \in DeviceArgs :
    /\ sres' = StreamResult("getDefaultMUSAStream", d,
                            DefaultStream(ResolveDevice(d)))
    /\ UNCHANGED <<current_device, current_streams, last_set, pool_counter,
                   handed, last_error, rt_range>>
    /\ UNCHANGED opvars

NextStreams ==
  \/ setCurrentMUSAStream
  \/ getCurrentMUSAStream
  \/ getDefaultMUSAStream

StreamSpec == InitStreams /\ [][NextStreams]_vars

(* ---------------------------- stream pool ------------------------------ *)
PoolKind(isHighPriority) == IF isHighPriority THEN "high" ELSE "normal"

PoolIndex_Stuck(counter) == 0

(* round robin: the pool slot the counter selects *)
PoolIndex(counter) == counter % StreamsPerPool

getStreamFromPool ==
  \E isHighPriority \in BOOLEAN, d \in DeviceArgs :
    LET pl == <<PoolKind(isHighPriority), ResolveDevice(d)>>
        i == PoolIndex(pool_counter[pl])
    IN /\ pool_counter[pl] < MaxCalls
       /\ pool_counter' = [pool_counter EXCEPT ![pl] = @ + 1]
       /\ handed' = [handed EXCEPT ![pl] = Append(@, i)]
       /\ sres' = [StreamResult("getStreamFromPool", d,
                                PoolStream(pl[1], pl[2], i))
                     EXCEPT !.flag = isHighPriority]
       /\ UNCHANGED <<current_device, current_streams, last_set, last_error,
                      rt_range>>
       /\ UNCHANGED opvars

NextPool == getStreamFromPool

PoolSpec == InitStreams /\ [][NextPool]_vars

(* ----------------------- MUSAStream methods ---------------------------- *)
RuntimeErrors ==
  {"musaSuccess", "musaErrorNotReady", "musaErrorInvalidResourceHandle",
   "musaErrorLaunchFailure"}

(* The runtime's sticky error after a call that returned err *)
AfterRuntimeCall(sticky, err) == IF err = "musaSuccess" THEN sticky ELSE err

(* the ranges musaDeviceGetStreamPriorityRange may report *)
PriorityRanges ==
  {<<least, greatest>> \in (0..2) \X (-1..1) : greatest <= least}

InitQuery ==
  /\ NoOperatorCall
  /\ current_device \in Devices
  /\ current_streams = [d \in Devices |-> DefaultStream(d)]
  /\ last_set = [d \in Devices |-> NoStream]
  /\ pool_counter = [pl \in Pools |-> 0]
  /\ handed = [pl \in Pools |-> <<>>]
  /\ last_error = "musaSuccess"
  /\ rt_range \in PriorityRanges
  /\ sres = NoResult

QueryStreams ==
  {DefaultStream(d) : d \in Devices} \cup {PoolStream("high", d, 0) : d \in Devices}

QueryOutcome_NoClear(s, err, device, sticky, check_clears) ==
  [ran_on |-> s.device,
   flag |-> (err = "musaSuccess"),
   raised |-> (err \notin {"musaSuccess", "musaErrorNotReady"}),
   last_error |-> AfterRuntimeCall(sticky, err),
   device |-> device]

(* MUSAStream::query on stream s when musaStreamQuery returns err, called  *)
(* with `device` current and `sticky` the runtime's last error: the        *)
(* DeviceGuard runs the call on s's device and restores `device` on every  *)
(* exit; check_clears is whether TORCH_MUSA_CHECK resets the last error.   *)
QueryOutcome(s, err, device, sticky, check_clears) ==
  IF err = "musaSuccess"
    THEN [ran_on |-> s.device, flag |-> TRUE, raised |-> FALSE,
          last_error |-> sticky, device |-> device]
  ELSE IF err # "musaErrorNotReady"
    THEN [ran_on |-> s.device, flag |-> FALSE, raised |-> TRUE,
          last_error |-> IF check_clears THEN "musaSuccess" ELSE err,
          device |-> device]
  ELSE [ran_on |-> s.device, flag |-> FALSE, raised |-> FALSE,
        last_error |-> "musaSuccess", device |-> device]

query ==
  \E s \in QueryStreams, err \in RuntimeErrors, check_clears \in BOOLEAN :
    LET r == QueryOutcome(s, err, current_device, last_error, check_clears)
    IN /\ sres' = [StreamResult("query", s.device, s)
                     EXCEPT !.flag = r.flag, !.raised = r.raised,
                            !.err = err, !.ran_on = r.ran_on]
       /\ last_error' = r.last_error
       /\ current_device' = r.device
       /\ UNCHANGED <<current_streams, last_set, pool_counter, handed, rt_range>>
       /\ UNCHANGED opvars

(* MUSAStream::synchronize *)
synchronize ==
  \E s \in QueryStreams, err \in RuntimeErrors, check_clears \in BOOLEAN :
    /\ sres' = [StreamResult("synchronize", s.device, s)
                  EXCEPT !.raised = (err # "musaSuccess"),
                         !.err = err, !.ran_on = s.device]
    /\ last_error' = IF err # "musaSuccess" /\ check_clears
                       THEN "musaSuccess"
                       ELSE AfterRuntimeCall(last_error, err)
    /\ UNCHANGED <<current_device, current_streams, last_set, pool_counter,
                   handed, rt_range>>
    /\ UNCHANGED opvars

(* MUSAStream::priority: the value returned for a runtime priority *)
PriorityValue(reported) == reported - 1

priority ==
  \E s \in QueryStreams, err \in RuntimeErrors \ {"musaErrorNotReady"},
     reported \in rt_range[2]..rt_range[1], check_clears \in BOOLEAN :
    /\ sres' = [StreamResult("priority", s.device, s)
                  EXCEPT !.raised = (err # "musaSuccess"),
                         !.value = IF err = "musaSuccess"
                                     THEN PriorityValue(reported) ELSE 0,
                         !.reported = reported,
                         !.err = err, !.ran_on = s.device]
    /\ last_error' = IF err # "musaSuccess" /\ check_clears
                       THEN "musaSuccess"
                       ELSE AfterRuntimeCall(last_error, err)
    /\ UNCHANGED <<current_device, current_streams, last_set, pool_counter,
                   handed, rt_range>>
    /\ UNCHANGED opvars

(* MUSAStream::priority_range: [raised, range] for a reported range *)
PriorityRangeOutcome(err, least_priority, greatest_priority) ==
  IF err # "musaSuccess" \/ ~(least_priority >= 1) \/ ~(greatest_priority <= 0)
    THEN [raised |-> TRUE, range |-> <<0, 0>>]
    ELSE [raised |-> FALSE, range |-> <<0, -1>>]

priority_range ==
  \E err \in RuntimeErrors \ {"musaErrorNotReady"}, check_clears \in BOOLEAN :
    LET r == PriorityRangeOutcome(err, rt_range[1], rt_range[2])
    IN /\ sres' = [StreamResult("priority_range", -1, NoStream)
                     EXCEPT !.raised = r.raised, !.range = r.range,
                            !.err = err, !.ran_on = current_device]
       /\ last_error' = IF err # "musaSuccess" /\ check_clears
                          THEN "musaSuccess"
                          ELSE AfterRuntimeCall(last_error, err)
       /\ UNCHANGED <<current_device, current_streams, last_set, pool_counter,
                      handed, rt_range>>
       /\ UNCHANGED opvars

NextQuery ==
  \/ query
  \/ synchronize
  \/ priority
  \/ priority_range

QuerySpec == InitQuery /\ [][NextQuery]_vars

(* --------------------------- stream claims ----------------------------- *)
(* C5: setCurrentMUSAStream(s) changes the current stream of s's device    *)
(* only: the current device and every other device's current stream stay;  *)
(* getCurrentMUSAStream(d) returns d's default stream until a stream of d   *)
(* has been set and the stream of d set last afterwards.                    *)
C5_SetGetCurrentStream ==
  /\ sres.op = "setCurrentMUSAStream" =>
       /\ current_device = sres.before.device
       /\ current_streams[sres.stream.device] = sres.stream
       /\ \A d \in Devices \ {sres.stream.device} :
            current_streams[d] = sres.before.streams[d]
  /\ sres.op = "getCurrentMUSAStream" =>
       LET d == IF sres.dev_arg = -1 THEN sres.before.device ELSE sres.dev_arg
       IN /\ sres.stream =
               (IF last_set[d] = NoStream THEN DefaultStream(d) ELSE last_set[d])
          /\ current_device = sres.before.device
          /\ current_streams = sres.before.streams

C5_Witness ==
  /\ sres.op = "setCurrentMUSAStream"
  /\ sres.stream.device # current_device
  /\ sres.stream.kind = "high"
  /\ sres.before.streams[sres.stream.device].kind = "normal"
  /\ current_streams[current_device].kind = "normal"

IsRoundRobin(h) ==
  \A k \in 1..Len(h) :
    /\ h[k] \in 0..(StreamsPerPool - 1)
    /\ k > 1 => h[k] = (h[k - 1] + 1) % StreamsPerPool

(* between two hand-outs of a slot every other slot is handed out *)
ReusedOnlyAfterAllOthers(h) ==
  \A j, k \in 1..Len(h) :
    (j < k /\ h[j] = h[k]) =>
      \A i \in 0..(StreamsPerPool - 1) : \E m \in j..(k - 1) : h[m] = i

(* C6: getStreamFromPool returns a stream of the preallocated pool of the  *)
(* requested priority class and device; each pool is served round robin,   *)
(* and a stream is handed out again only after all others of its pool.     *)
C6_PoolRoundRobin ==
  /\ \A pl \in Pools :
       /\ IsRoundRobin(handed[pl])
       /\ ReusedOnlyAfterAllOthers(handed[pl])
       /\ Len(handed[pl]) = pool_counter[pl]
  /\ sres.op = "getStreamFromPool" =>
       LET d == IF sres.dev_arg = -1 THEN sres.before.device ELSE sres.dev_arg
       IN /\ sres.stream \in PoolStreams
          /\ sres.stream.kind = (IF sres.flag THEN "high" ELSE "normal")
          /\ sres.stream.device = d
          /\ Len(handed[<<sres.stream.kind, d>>]) > 0
          /\ sres.stream.idx =
               handed[<<sres.stream.kind, d>>][Len(handed[<<sres.stream.kind, d>>])]

C6_Witness ==
  /\ sres.op = "getStreamFromPool"
  /\ sres.flag
  /\ sres.dev_arg = -1
  /\ Len(handed[<<"high", current_device>>]) = StreamsPerPool + 1
  /\ sres.stream.idx = 0
  /\ Len(handed[<<"normal", current_device>>]) = 1

(* C7: query returns true exactly when musaStreamQuery reports success;    *)
(* on not-ready it returns false without raising and the runtime's last    *)
(* error is cleared; on any other error it raises; the current device is   *)
(* afterwards the one that was current before.                             *)
C7_QueryOutcome ==
  sres.op = "query" =>
    /\ (sres.flag /\ ~sres.raised) <=> (sres.err = "musaSuccess")
    /\ sres.err = "musaErrorNotReady" =>
         (~sres.flag /\ ~sres.raised /\ last_error = "musaSuccess")
    /\ sres.err \notin {"musaSuccess", "musaErrorNotReady"} =>
         (sres.raised /\ ~sres.flag)
    /\ current_device = sres.before.device
    /\ sres.ran_on = sres.stream.device

C7_Witness ==
  /\ sres.op = "query"
  /\ sres.err = "musaErrorNotReady"
  /\ sres.stream.device # current_device
  /\ sres.before.last_error = "musaErrorLaunchFailure"
  /\ last_error = "musaSuccess"
  /\ ~sres.flag

(* C8: priority returns the runtime priority minus 1; priority_range       *)
(* returns (0, -1) whenever least >= 1 and greatest <= 0; and the priority *)
(* of every stream whose runtime priority lies in the reported range lies  *)
(* in the range priority_range returns.                                    *)
C8_PriorityWithinRange ==
  /\ (sres.op = "priority" /\ ~sres.raised) =>
       /\ sres.value = sres.reported - 1
       /\ (rt_range[1] >= 1 /\ rt_range[2] <= 0
            /\ sres.reported \in rt_range[2]..rt_range[1]) =>
            sres.value \in -1..0
  /\ (sres.op = "priority_range" /\ ~sres.raised) => sres.range = <<0, -1>>
  /\ (sres.op = "priority_range" /\ sres.err = "musaSuccess"
        /\ rt_range[1] >= 1 /\ rt_range[2] <= 0) => ~sres.raised

(* ----------------------------- ReduceCall ------------------------------ *)
ReduceModes == {"ADD", "MEAN", "NORM"}

(* p: absent, 3, 2^24 + 1, -2, 0.5, 2^24 + 1 as a double, true, complex *)
Scalars ==
  {NoScalar, IntScalar(3), IntScalar(16777217), IntScalar(-2),
   DoubleScalar(1), DoubleScalar(33554434), BoolScalar, ComplexScalar}

(* Inputs of ReduceCall *)
InitReduceCall ==
  /\ self \in {Tensor("self", t, sh, OrigData) :
                  t \in {"Float", "Half", "Long"}, sh \in SelfShapes}
  /\ out \in {Tensor("out", "Float", sh, OrigData) : sh \in OutShapes}
  /\ call = NoCall
  /\ ret = UndefinedTensor
  /\ raised = FALSE
  /\ lib = <<>>
  /\ pc = "ready"
  /\ StreamsAtRest

ReduceCallOp ==
  \E dim \in DimLists, m \in ReduceModes, p \in Scalars, is_norm \in BOOLEAN :
    LET r == ReduceCall(out, self, dim, m, p, is_norm)
    IN /\ pc = "ready"
       /\ pc' = "done"
       /\ call' = [Call("ReduceCall", "None", dim, FALSE, p)
                     EXCEPT !.mode = m, !.is_norm = is_norm]
       /\ out' = r.output
       /\ ret' = UndefinedTensor
       /\ raised' = r.raised
       /\ lib' = r.lib
       /\ UNCHANGED <<self, streamvars>>

NextReduceCall == ReduceCallOp

ReduceCallSpec == InitReduceCall /\ [][NextReduceCall]_vars

(* C11 (as claimed): with is_norm set the order handed to the library is   *)
(* 2.0 when p is absent, the integer value of p when p is integral (Bool   *)
(* excluded), the floating value of p when p is floating; any other kind   *)
(* raises and Run is never reached; with is_norm unset no order is set.    *)
C11_OrderIsValueOfP ==
  (pc = "done" /\ call.op = "ReduceCall") =>
    IF call.is_norm /\ call.p.has /\ call.p.kind \notin {"Int", "Double"}
      THEN raised /\ lib = <<>>
    ELSE /\ ~raised
         /\ \A i \in 1..Len(lib) :
              lib[i].ord =
                IF ~call.is_norm THEN NoOrd
                ELSE IF ~call.p.has THEN [set |-> TRUE, halves |-> 4]
                ELSE IF call.p.kind = "Int"
                  THEN [set |-> TRUE, halves |-> 2 * call.p.v]
                ELSE [set |-> TRUE, halves |-> call.p.v]

Abs(n) == IF n >= 0 THEN n ELSE -n

(* n (a count of a power-of-two unit) has at most 24 significant bits *)
IsFloat(n) ==
  \E k \in {1, 2, 4, 8, 16, 32, 64, 128} :
    Abs(n) % k = 0 /\ Abs(n) \div k <= 16777216

(* f is a float nearest to the exact value x *)
NearestFloat(f, x) ==
  /\ IsFloat(f)
  /\ \A c \in (x - 4)..(x + 4) : IsFloat(c) => Abs(f - x) <= Abs(c - x)

(* C11 (amended): on an input with elements, the order is 2.0 when p is    *)
(* absent and the value of p converted to float when p is integral (Bool   *)
(* excluded) or floating: p itself when float represents it, a nearest     *)
(* float otherwise; any other kind raises, Run is not reached and output   *)
(* is untouched; with is_norm unset no order is set. On an input without   *)
(* elements p is not looked at: nothing is raised, the library not called. *)
C11_OrderIsFloatOfP ==
  (pc = "done" /\ call.op = "ReduceCall") =>
    IF Numel(call.self.shape) = 0
      THEN ~raised /\ lib = <<>> /\ out = call.out
    ELSE IF ~call.is_norm
      THEN ~raised /\ Len(lib) = 1 /\ ~lib[1].ord.set
    ELSE IF ~call.p.has
      THEN ~raised /\ Len(lib) = 1 /\ lib[1].ord = [set |-> TRUE, halves |-> 4]
    ELSE IF call.p.kind \in {"Int", "Double"}
      THEN LET exact == IF call.p.kind = "Int" THEN 2 * call.p.v ELSE call.p.v
           IN /\ ~raised
              /\ Len(lib) = 1
              /\ lib[1].ord.set
              /\ NearestFloat(lib[1].ord.halves, exact)
              /\ IsFloat(exact) => lib[1].ord.halves = exact
    ELSE raised /\ lib = <<>> /\ out = call.out

C11_Witness ==
  /\ pc = "done"
  /\ call.op = "ReduceCall"
  /\ call.is_norm
  /\ call.p = IntScalar(16777217)
  /\ Len(lib) = 1
  /\ lib[1].ord = [set |-> TRUE, halves |-> 33554432]

Next ==
  \/ Sum
  \/ Mean
  \/ Prod
  \/ SumIntList
  \/ MeanDim
  \/ CumSum
  \/ CumProd
  \/ CumSum_
  \/ CumProd_

Spec == Init /\ [][Next]_vars

====
